---- MODULE Spec2Model ----
(***************************************************************************)
(* WorkTrack-Pro (app.py): the time-entry lifecycle, the audit-note ledger *)
(* and the suspension workflow of the Flask service, as a state machine.   *)
(*                                                                         *)
(* Time is counted in ticks of 12 seconds, so that an hour is 300 ticks    *)
(* and round(seconds / 3600, 2) never meets a tie.  totalHours is kept in  *)
(* hundredths of an hour.  A calendar day ('%Y-%m-%d', .date()) is the     *)
(* day number of a time.  `now` is the latest value datetime.now() has     *)
(* returned; a request that reads the clock reads a value t >= now, and    *)
(* the several reads of one request are taken at the same instant.         *)
(* uuid4 ids are drawn from one counter.                                   *)
(***************************************************************************)
EXTENDS Integers, Sequences, FiniteSets, TLC

VARIABLES
    users,              \* app.py `users`: user id -> user record
    time_entries,       \* app.py `time_entries`: list of entry records
    notes,              \* app.py `notes`: list of note records
    users_file,         \* contents of users.json
    time_entries_file,  \* contents of time_entries.json
    notes_file,         \* contents of notes.json
    now,                \* the latest reading of datetime.now()
    advances,           \* number of times the clock was seen to have moved
    uuids,              \* number of ids uuid.uuid4() has handed out
    last,               \* the most recent request and its response
    absorbed,           \* history: ids of entries that took a consolidated clock-out
    sessions,           \* history: per user, the clock-in/out run of the current day
    relogged,           \* history: ids of entries whose loginTime an edit has changed
    pending             \* per request thread, the /clock_in it is in the middle of

vars == <<users, time_entries, notes, users_file, time_entries_file, notes_file,
          now, advances, uuids, last, absorbed, sessions, relogged, pending>>

data == <<users, time_entries, notes, users_file, time_entries_file, notes_file>>

----------------------------------------------------------------------------
(* Bounds of the model *)

MaxIds == 5

MaxAdvances == 2

----------------------------------------------------------------------------
(* Time *)

TicksPerHour == 300

TicksPerDay == 24 * TicksPerHour

EDITED_DAYS == 3

\* the service starts at noon of day 3
StartTime == EDITED_DAYS * TicksPerDay + 12 * TicksPerHour

\* a JSON null / Python None, and a present timestamp
None == <<>>

Some(t) == <<t>>

\* the request threads of the development server (app.run: threaded)
Threads == {1, 2}

\* a string datetime.fromisoformat rejects
Malformed == <<0, 0>>

\* what datetime.now() may return: the time of the last reading, or 24
\* seconds later
Clock == {now} \cup IF advances < MaxAdvances THEN {now + 2} ELSE {}

Observed(t) == IF t = now THEN advances ELSE advances + 1

\* datetime.date() / strftime('%Y-%m-%d')
DateOf(t) == t \div TicksPerDay

\* round(duration.total_seconds() / 3600, 2), in hundredths of an hour
RoundHours(ticks) == (200 * ticks + TicksPerHour) \div (2 * TicksPerHour)

----------------------------------------------------------------------------
(* Identifiers and the directory *)

Admin == <<"u", 1>>

Timekeeper == <<"u", 2>>

Worker == <<"u", 3>>

Nobody == <<"u", 0>>

UserIds == {Admin, Timekeeper, Worker}

DefaultRole(u) == IF u = Admin THEN "ADMIN"
                  ELSE IF u = Timekeeper THEN "TIMEKEEPER" ELSE "worker"

DefaultName(u) == IF u = Admin THEN "System Admin"
                  ELSE IF u = Timekeeper THEN "Lead Timekeeper" ELSE "John Doe"

DefaultPin(u) == IF u = Admin THEN "0000"
                 ELSE IF u = Timekeeper THEN "1111" ELSE "1234"

DefaultEmail(u) == IF u = Admin THEN "admin@example.com"
                   ELSE IF u = Timekeeper THEN "timekeeper@example.com"
                   ELSE "john@example.com"

\* the id of a user added after startup
UserId(k) == <<"u", k + Cardinality(UserIds)>>

EntryId(k) == <<"e", k>>

NoteId(k) == <<"n", k>>

DefaultUsers == [u \in UserIds |->
                   [id |-> u, name |-> DefaultName(u), email |-> DefaultEmail(u),
                    role |-> DefaultRole(u), pin |-> DefaultPin(u),
                    is_suspended |-> FALSE, suspension_notes |-> <<>>]]

----------------------------------------------------------------------------
(* List helpers *)

Indices(s) == 1..Len(s)

\* next((x for x in s if ...), None), given the indices of the matches: the
\* index of the first match, 0 if there is none
FirstIndex(matches) == IF matches = {} THEN 0
                       ELSE CHOOSE i \in matches : \A j \in matches : i <= j

\* list.remove(x) for the element at index i
RemoveAt(s, i) == [j \in 1..(Len(s) - 1) |-> IF j < i THEN s[j] ELSE s[j + 1]]

ActiveIndexOfAnyEntry(u) ==
    FirstIndex({i \in Indices(time_entries) : time_entries[i].userId = u})

ActiveIndex(u) ==
    FirstIndex({i \in Indices(time_entries) :
                    /\ time_entries[i].userId = u
                    /\ time_entries[i].logoutTime = None})

save_data_failing(file, contents) == file

\* save_data(file_path, data): the file holds what was dumped
save_data(file, contents) == contents

Reply(op, status, req, body) ==
    [op |-> op, status |-> status, req |-> req, body |-> body]

Response(op, status, req) == Reply(op, status, req, <<>>)

\* a request that is answered without touching anything
Reject(op, status, req) ==
    /\ last' = Response(op, status, req)
    /\ UNCHANGED <<data, now, advances, uuids, absorbed, sessions, relogged, pending>>

\* A refused request changes nothing but `last`, so whatever can follow it
\* can follow the state before it: behaviours are not extended past a refusal.
Settled == last.status \in {200, 201}

----------------------------------------------------------------------------
(* History bookkeeping (no counterpart in the program state) *)

\* sessions[u] is the run of clock-in and clock-out instants of u that began
\* with a clock-in on a day for which u had no entry, and has gone on within
\* that day with nothing else touching u's entries; <<>> otherwise.
HasEntryFor(u, day) ==
    \E i \in Indices(time_entries) :
        time_entries[i].userId = u /\ time_entries[i].date = day

SessionsAfterClockIn(u, t) ==
    IF ~HasEntryFor(u, DateOf(t))
    THEN [sessions EXCEPT ![u] = <<t>>]
    ELSE IF Len(sessions[u]) = 2 /\ DateOf(sessions[u][1]) = DateOf(t)
    THEN [sessions EXCEPT ![u] = Append(@, t)]
    ELSE [sessions EXCEPT ![u] = <<>>]

SessionsAfterClockOut(u, t) ==
    IF Len(sessions[u]) \in {1, 3} /\ DateOf(sessions[u][1]) = DateOf(t)
    THEN [sessions EXCEPT ![u] = Append(@, t)]
    ELSE [sessions EXCEPT ![u] = <<>>]

SessionsReset(u) == [sessions EXCEPT ![u] = <<>>]

----------------------------------------------------------------------------
\* What load_data finds at startup: the default users, and the timekeeper's
\* entry of three days ago, which the admin closed by a forced logout 24
\* seconds after the clock-in.
StoredLogin == StartTime - EDITED_DAYS * TicksPerDay

StoredEntry ==
    [id |-> EntryId(1), userId |-> Timekeeper,
     loginTime |-> StoredLogin,
     logoutTime |-> Some(StoredLogin + 2),
     totalHours |-> RoundHours(2),
     date |-> DateOf(StoredLogin),
     edited |-> TRUE,
     lastModified |-> StoredLogin + 2,
     editNotes |-> <<NoteId(2)>>]

StoredNote ==
    [id |-> NoteId(2), entityId |-> EntryId(1), entityType |-> "time_entry",
     timestamp |-> StoredLogin + 2, editor |-> DefaultName(Admin)]

Init ==
    /\ users = DefaultUsers
    /\ time_entries = <<StoredEntry>>
    /\ notes = <<StoredNote>>
    /\ users_file = users
    /\ time_entries_file = time_entries
    /\ notes_file = notes
    /\ now = StartTime
    /\ advances = 0
    /\ uuids = 2
    /\ last = Response("start", 200, <<>>)
    /\ absorbed = {}
    /\ sessions = [u \in UserIds |-> <<>>]
    /\ relogged = {}
    /\ pending = [th \in Threads |-> None]

----------------------------------------------------------------------------
(* /clock_in *)

NewEntryDatedDayBefore(id, user_id, t) ==
    [id |-> id, userId |-> user_id, loginTime |-> t, logoutTime |-> None,
     totalHours |-> 0, date |-> DateOf(t) - 1, edited |-> FALSE,
     lastModified |-> t, editNotes |-> <<>>]

NewEntry(id, user_id, t) ==
    [id |-> id, userId |-> user_id, loginTime |-> t, logoutTime |-> None,
     totalHours |-> 0, date |-> DateOf(t), edited |-> FALSE,
     lastModified |-> t, editNotes |-> <<>>]

IsSuspendedIgnored(user_id) == FALSE

\* user.get('is_suspended', False)
IsSuspended(user_id) == users[user_id].is_suspended

clock_in(user_id) ==
    LET req == [user_id |-> user_id] IN
    IF user_id \notin DOMAIN users
    THEN Reject("clock_in", 404, req)
    ELSE IF IsSuspended(user_id)
    THEN Reject("clock_in", 403, req)
    ELSE IF ActiveIndex(user_id) # 0
    THEN Reject("clock_in", 400, req)
    ELSE \E t \in Clock :
         /\ uuids < MaxIds
         /\ uuids' = uuids + 1
         /\ time_entries' = Append(time_entries,
                                   NewEntry(EntryId(uuids + 1), user_id, t))
         /\ time_entries_file' = save_data(time_entries_file, time_entries')
         /\ now' = t
         /\ advances' = Observed(t)
         /\ last' = Response("clock_in", 200, req)
         /\ sessions' = SessionsAfterClockIn(user_id, t)
         /\ UNCHANGED <<users, notes, users_file, notes_file, absorbed, relogged>>

----------------------------------------------------------------------------
(* /clock_out *)

ExistingTodayIndexNotSought(user_id, t) == 0

\* existing_today_entry: the first completed entry of the user for today
ExistingTodayIndex(user_id, t) ==
    FirstIndex({i \in Indices(time_entries) :
                    /\ time_entries[i].userId = user_id
                    /\ time_entries[i].date = DateOf(t)
                    /\ time_entries[i].logoutTime # None
                    /\ DateOf(time_entries[i].loginTime) = DateOf(t)})

ConsolidateOverwriting(ai, xi, hours, t) ==
    RemoveAt([time_entries EXCEPT ![xi].totalHours = hours,
                                  ![xi].logoutTime = Some(t),
                                  ![xi].lastModified = t],
             ai)

\* the consolidating branch: the hours go to the existing entry and the
\* active entry is removed
Consolidate(ai, xi, hours, t) ==
    RemoveAt([time_entries EXCEPT ![xi].totalHours = @ + hours,
                                  ![xi].logoutTime = Some(t),
                                  ![xi].lastModified = t],
             ai)

CloseActiveWithoutHours(ai, hours, t) ==
    [time_entries EXCEPT ![ai].logoutTime = Some(t),
                         ![ai].lastModified = t]

\* the plain branch: the active entry is closed where it is
CloseActive(ai, hours, t) ==
    [time_entries EXCEPT ![ai].logoutTime = Some(t),
                         ![ai].totalHours = hours,
                         ![ai].lastModified = t]

clock_out(user_id) ==
    LET req == [user_id |-> user_id]
        ai == ActiveIndex(user_id)
    IN
    IF user_id \notin DOMAIN users
    THEN Reject("clock_out", 404, req)
    ELSE IF ai = 0
    THEN Reject("clock_out", 400, req)
    ELSE \E t \in Clock :
         LET xi == ExistingTodayIndex(user_id, t)
             hours == RoundHours(t - time_entries[ai].loginTime)
         IN
         /\ time_entries' = IF xi # 0 THEN Consolidate(ai, xi, hours, t)
                                      ELSE CloseActive(ai, hours, t)
         /\ time_entries_file' = save_data(time_entries_file, time_entries')
         /\ now' = t
         /\ advances' = Observed(t)
         /\ absorbed' = IF xi # 0
                        THEN absorbed \cup {time_entries[xi].id}
                        ELSE absorbed
         /\ relogged' = IF xi # 0
                        THEN relogged \ {time_entries[ai].id}
                        ELSE relogged
         /\ sessions' = SessionsAfterClockOut(user_id, t)
         /\ last' = Response("clock_out", 200, req)
         /\ UNCHANGED <<users, notes, users_file, notes_file, uuids>>

----------------------------------------------------------------------------
(* The audit notes *)

Managers == {"ADMIN", "TIMEKEEPER"}

\* the note record; its free text is left out
NewNote(id, entityId, entityType, t, editor) ==
    [id |-> id, entityId |-> entityId, entityType |-> entityType,
     timestamp |-> t, editor |-> editor]

AppendNoteDroppingOthers(note) == <<note>>

\* notes.append(new_note)
AppendNote(note) == Append(notes, note)

LinkNoteInFront(e, note_id) == [e EXCEPT !.editNotes = <<note_id>> \o @]

\* entry['editNotes'].append(new_note_id)
LinkNote(e, note_id) == [e EXCEPT !.editNotes = Append(@, note_id)]

----------------------------------------------------------------------------
(* /logout *)

ForcedOutUnmarked(e, t) ==
    [e EXCEPT !.logoutTime = Some(t),
              !.totalHours = RoundHours(t - e.loginTime),
              !.lastModified = t]

\* the update of the active entry by a forced logout
ForcedOut(e, t) ==
    [e EXCEPT !.logoutTime = Some(t),
              !.totalHours = RoundHours(t - e.loginTime),
              !.edited = TRUE,
              !.lastModified = t]

logout(user_id, requester_id) ==
    LET req == [user_id |-> user_id, requester_id |-> requester_id]
        ai == ActiveIndex(user_id)
        new_note_id == NoteId(uuids + 1)
    IN
    IF requester_id \notin DOMAIN users
    THEN Reject("logout", 500, req)
    ELSE IF users[requester_id].role \notin Managers
    THEN Reject("logout", 403, req)
    ELSE IF user_id \notin DOMAIN users
    THEN Reject("logout", 404, req)
    ELSE IF ai = 0
    THEN Reject("logout", 400, req)
    ELSE \E t \in Clock :
         /\ uuids < MaxIds
         /\ uuids' = uuids + 1
         /\ notes' = AppendNote(NewNote(new_note_id, time_entries[ai].id,
                                        "time_entry", t, users[requester_id].name))
         /\ notes_file' = save_data(notes_file, notes')
         /\ time_entries' =
                [time_entries EXCEPT
                    ![ai] = LinkNote(ForcedOut(time_entries[ai], t), new_note_id)]
         /\ time_entries_file' = save_data(time_entries_file, time_entries')
         /\ now' = t
         /\ advances' = Observed(t)
         /\ sessions' = SessionsReset(user_id)
         /\ last' = Response("logout", 200, req)
         /\ UNCHANGED <<users, users_file, absorbed, relogged>>

----------------------------------------------------------------------------
(* /edit_time_entry *)

EntryIndex(entry_id) ==
    FirstIndex({i \in Indices(time_entries) : time_entries[i].id = entry_id})

LogoutBeforeLoginUnchecked(login_dt, logout_dt) == FALSE

\* logout_dt and logout_dt < login_dt
LogoutBeforeLogin(login_dt, logout_dt) ==
    logout_dt # None /\ logout_dt[1] < login_dt[1]

EditedRedated(e, login_dt, logout_dt, t) ==
    [e EXCEPT !.loginTime = login_dt[1],
              !.logoutTime = logout_dt,
              !.totalHours = IF logout_dt # None
                             THEN RoundHours(logout_dt[1] - login_dt[1])
                             ELSE 0,
              !.date = DateOf(login_dt[1]),
              !.edited = TRUE,
              !.lastModified = t]

\* the update of the entry by an edit
Edited(e, login_dt, logout_dt, t) ==
    [e EXCEPT !.loginTime = login_dt[1],
              !.logoutTime = logout_dt,
              !.totalHours = IF logout_dt # None
                             THEN RoundHours(logout_dt[1] - login_dt[1])
                             ELSE 0,
              !.edited = TRUE,
              !.lastModified = t]

edit_time_entry(entry_id, login_time, logout_time, edit_note, editor_user_id) ==
    LET req == [entry_id |-> entry_id, login_time |-> login_time,
                logout_time |-> logout_time, edit_note |-> edit_note,
                editor_user_id |-> editor_user_id]
        ei == EntryIndex(entry_id)
        new_note_id == NoteId(uuids + 1)
    IN
    IF entry_id = None \/ edit_note = ""
    THEN Reject("edit_time_entry", 400, req)
    ELSE IF ei = 0
    THEN Reject("edit_time_entry", 404, req)
    ELSE IF editor_user_id \notin DOMAIN users
    THEN Reject("edit_time_entry", 500, req)
    ELSE IF users[editor_user_id].role \notin Managers
    THEN Reject("edit_time_entry", 403, req)
    ELSE IF login_time = None
    THEN Reject("edit_time_entry", 500, req)
    ELSE IF login_time = Malformed \/ logout_time = Malformed
    THEN Reject("edit_time_entry", 400, req)
    ELSE IF LogoutBeforeLogin(login_time, logout_time)
    THEN Reject("edit_time_entry", 400, req)
    ELSE \E t \in Clock :
         /\ uuids < MaxIds
         /\ uuids' = uuids + 1
         /\ notes' = AppendNote(NewNote(new_note_id, entry_id, "time_entry", t,
                                        users[editor_user_id].name))
         /\ notes_file' = save_data(notes_file, notes')
         /\ time_entries' =
                [time_entries EXCEPT
                    ![ei] = LinkNote(Edited(time_entries[ei], login_time,
                                            logout_time, t),
                                     new_note_id)]
         /\ time_entries_file' = save_data(time_entries_file, time_entries')
         /\ now' = t
         /\ advances' = Observed(t)
         /\ sessions' = SessionsReset(time_entries[ei].userId)
         /\ absorbed' = absorbed \ {entry_id}
         /\ relogged' = IF login_time[1] # time_entries[ei].loginTime
                        THEN relogged \cup {entry_id}
                        ELSE relogged
         /\ last' = Response("edit_time_entry", 200, req)
         /\ UNCHANGED <<users, users_file>>

----------------------------------------------------------------------------
(* GET /time_entries *)

StaleFromThreeDays(e, current_time) ==
    e.edited /\ current_time - e.lastModified >= EDITED_DAYS * TicksPerDay

\* (current_time - last_mod_dt) > timedelta(days=3)
Stale(e, current_time) ==
    e.edited /\ current_time - e.lastModified > EDITED_DAYS * TicksPerDay

\* entry_copy: the entry as it is returned
EntryCopy(e, current_time) ==
    [entry |-> [e EXCEPT !.edited = IF Stale(e, current_time) THEN FALSE ELSE @],
     userName |-> IF e.userId \in DOMAIN users
                  THEN users[e.userId].name ELSE "Unknown User",
     editNotesFull |-> SelectSeq(notes, LAMBDA n :
                                \E k \in Indices(e.editNotes) : e.editNotes[k] = n.id)]

\* the loop over time_entries changes the copies only
EntriesAfterListing(current_time) == time_entries

get_all_time_entries ==
    \E t \in Clock :
    /\ time_entries' = EntriesAfterListing(t)
    /\ time_entries_file' =
           IF \E i \in Indices(time_entries) : Stale(time_entries[i], t)
           THEN save_data(time_entries_file, time_entries')
           ELSE time_entries_file
    /\ now' = t
    /\ advances' = Observed(t)
    /\ last' = Reply("time_entries", 200, [current_time |-> t],
                     [i \in Indices(time_entries) |-> EntryCopy(time_entries[i], t)])
    /\ UNCHANGED <<users, notes, users_file, notes_file, uuids, absorbed, sessions,
                   relogged>>

----------------------------------------------------------------------------
(* /suspend_user *)

BlankOnlyWhenEmpty(note_content) == note_content = ""

\* not note_content or not note_content.strip()
Blank(note_content) == note_content \in {"", " "}

TimekeeperOnAdminAllowed(requester_id, user_id) == FALSE

\* requester_user['role'] == 'TIMEKEEPER' and user_to_modify['role'] == 'ADMIN'
TimekeeperOnAdmin(requester_id, user_id) ==
    users[requester_id].role = "TIMEKEEPER" /\ users[user_id].role = "ADMIN"

suspend_user(user_id, is_suspended, note_content, requester_id) ==
    LET req == [user_id |-> user_id, is_suspended |-> is_suspended,
                note |-> note_content, requester_id |-> requester_id]
        new_note_id == NoteId(uuids + 1)
    IN
    IF user_id \notin DOMAIN users
    THEN Reject("suspend_user", 404, req)
    ELSE IF requester_id \notin DOMAIN users
    THEN Reject("suspend_user", 500, req)
    ELSE IF users[requester_id].role \notin Managers
    THEN Reject("suspend_user", 403, req)
    ELSE IF user_id = requester_id
    THEN Reject("suspend_user", 403, req)
    ELSE IF TimekeeperOnAdmin(requester_id, user_id)
    THEN Reject("suspend_user", 403, req)
    ELSE IF Blank(note_content)
    THEN Reject("suspend_user", 400, req)
    ELSE \E t \in Clock :
         /\ uuids < MaxIds
         /\ uuids' = uuids + 1
         /\ notes' = AppendNote(NewNote(new_note_id, user_id, "user_suspension", t,
                                        users[requester_id].name))
         /\ notes_file' = save_data(notes_file, notes')
         /\ users' = [users EXCEPT ![user_id].is_suspended = is_suspended,
                                   ![user_id].suspension_notes = Append(@, new_note_id)]
         /\ users_file' = save_data(users_file, users')
         /\ now' = t
         /\ advances' = Observed(t)
         /\ last' = Response("suspend_user", 200, req)
         /\ UNCHANGED <<time_entries, time_entries_file, absorbed, sessions, relogged>>

----------------------------------------------------------------------------
(* /users/delete/<user_id> *)

SeqToSet(s) == {s[i] : i \in Indices(s)}

NotesToDeleteOfEntriesOnly(user_id) ==
    UNION {SeqToSet(time_entries[i].editNotes) :
             i \in {j \in Indices(time_entries) : time_entries[j].userId = user_id}}

\* notes_to_delete_ids
NotesToDelete(user_id) ==
    UNION {SeqToSet(time_entries[i].editNotes) :
             i \in {j \in Indices(time_entries) : time_entries[j].userId = user_id}}
    \cup SeqToSet(users[user_id].suspension_notes)

AdminCount == Cardinality({u \in DOMAIN users : users[u].role = "ADMIN"})

RequesterIsManager(requester_id) == users[requester_id].role \in Managers

\* requester_user['role'] == 'ADMIN'
RequesterIsAdmin(requester_id) == users[requester_id].role = "ADMIN"

delete_user(user_id, requester_id) ==
    LET req == [user_id |-> user_id, requester_id |-> requester_id] IN
    IF user_id \notin DOMAIN users
    THEN Reject("delete_user", 404, req)
    ELSE IF requester_id \notin DOMAIN users
    THEN Reject("delete_user", 500, req)
    ELSE IF ~RequesterIsAdmin(requester_id)
    THEN Reject("delete_user", 403, req)
    ELSE IF user_id = requester_id
    THEN Reject("delete_user", 403, req)
    ELSE IF users[user_id].role = "ADMIN" /\ AdminCount <= 1
    THEN Reject("delete_user", 403, req)
    ELSE LET gone == NotesToDelete(user_id) IN
         /\ users' = [u \in DOMAIN users \ {user_id} |-> users[u]]
         /\ users_file' = save_data(users_file, users')
         /\ time_entries' = SelectSeq(time_entries, LAMBDA e : e.userId # user_id)
         /\ time_entries_file' = save_data(time_entries_file, time_entries')
         /\ notes' = SelectSeq(notes, LAMBDA n : n.id \notin gone)
         /\ notes_file' = save_data(notes_file, notes')
         /\ sessions' = SessionsReset(user_id)
         /\ absorbed' = {id \in absorbed :
                           \E i \in Indices(time_entries') : time_entries'[i].id = id}
         /\ relogged' = {id \in relogged :
                           \E i \in Indices(time_entries') : time_entries'[i].id = id}
         /\ last' = Response("delete_user", 200, req)
         /\ UNCHANGED <<now, advances, uuids>>

----------------------------------------------------------------------------
(* /users/add *)

\* isinstance(pin, str) and pin.isdigit(), over the pins the requests carry
IsDigits(pin) == pin \in {"0000", "1111", "1234", "2222", "3333"}

\* the new user; an email that is not given is kept as ""
NewUser(id, name, email, role, pin) ==
    [id |-> id, name |-> name, email |-> email, role |-> role, pin |-> pin,
     is_suspended |-> FALSE, suspension_notes |-> <<>>]

add_user(name, email, role, pin, requester_role) ==
    LET req == [name |-> name, email |-> email, role |-> role, pin |-> pin,
                requester_role |-> requester_role]
        id == UserId(uuids + 1)
    IN
    IF name = ""
    THEN Reject("add_user", 400, req)
    ELSE IF pin = "" \/ ~IsDigits(pin)
    THEN Reject("add_user", 400, req)
    ELSE IF \E u \in DOMAIN users : users[u].pin = pin
    THEN Reject("add_user", 409, req)
    ELSE IF requester_role = "TIMEKEEPER" /\ role # "worker"
    THEN Reject("add_user", 403, req)
    ELSE IF requester_role \notin {"ADMIN", "TIMEKEEPER"}
    THEN Reject("add_user", 403, req)
    ELSE IF email # "" /\ \E u \in DOMAIN users : users[u].email = email
    THEN Reject("add_user", 409, req)
    ELSE /\ uuids < MaxIds
         /\ uuids' = uuids + 1
         /\ users' = [u \in DOMAIN users \cup {id} |->
                        IF u = id THEN NewUser(id, name, email, role, pin)
                        ELSE users[u]]
         /\ users_file' = save_data(users_file, users')
         /\ last' = Response("add_user", 201, req)
         /\ UNCHANGED <<time_entries, notes, time_entries_file, notes_file, now,
                        advances, absorbed, sessions, relogged, pending>>

----------------------------------------------------------------------------
(* The requests the model issues *)

Clockers == {Worker, Nobody}

\* <<entry_id, login_time, logout_time, edit_note, editor_user_id>>: for each
\* entry of the worker, re-opening it, closing it, moving its login to the
\* day before or the day after, and one request for each refusal
EditRequests ==
    UNION {
      {<<e.id, Some(e.loginTime), None, "reason", Admin>>,
       <<e.id, Some(e.loginTime), Some(e.loginTime + 4), "reason", Admin>>,
       <<e.id, Some(now - TicksPerDay), None, "reason", Admin>>,
       <<e.id, Some(now + TicksPerDay), None, "reason", Admin>>,
       <<e.id, Some(e.loginTime), Some(e.loginTime + 2), " ", Timekeeper>>,
       <<e.id, Some(e.loginTime), Some(e.loginTime - 2), "reason", Admin>>}
      : e \in {x \in SeqToSet(time_entries) : x.userId = Worker}}
    \cup {<<EntryId(1), Some(now), None, "", Admin>>,
          <<EntryId(1), Some(now), None, "reason", Worker>>,
          <<EntryId(1), Some(now), None, "reason", Nobody>>,
          <<EntryId(1), None, None, "reason", Admin>>,
          <<EntryId(1), Malformed, None, "reason", Admin>>,
          <<EntryId(1), Some(now), Malformed, "reason", Admin>>,
          <<None, Some(now), None, "reason", Admin>>,
          <<EntryId(0), Some(now), None, "reason", Admin>>}

\* <<user_id, is_suspended, note, requester_id>>
SuspendRequests ==
    {<<Worker, TRUE, "reason", Admin>>, <<Worker, FALSE, "reason", Admin>>,
     <<Timekeeper, TRUE, "reason", Admin>>, <<Worker, TRUE, "reason", Timekeeper>>,
     <<Admin, TRUE, "reason", Timekeeper>>, <<Admin, TRUE, "reason", Admin>>,
     <<Worker, TRUE, "", Admin>>, <<Worker, TRUE, " ", Admin>>,
     <<Timekeeper, TRUE, "reason", Worker>>,
     <<Worker, TRUE, "reason", Nobody>>,
     <<Nobody, TRUE, "reason", Admin>>}

\* <<user_id, requester_id>>
LogoutRequests ==
    {<<Worker, Admin>>, <<Worker, Timekeeper>>, <<Timekeeper, Admin>>,
     <<Worker, Worker>>, <<Worker, Nobody>>, <<Nobody, Admin>>}

\* <<user_id, requester_id>>
DeleteRequests ==
    {<<Worker, Admin>>, <<Timekeeper, Admin>>, <<Admin, Admin>>,
     <<Worker, Timekeeper>>, <<Worker, Nobody>>, <<Nobody, Admin>>}

Next ==
    \/ \E u \in Clockers : Settled /\ clock_in(u) /\ UNCHANGED pending
    \/ \E u \in Clockers : Settled /\ clock_out(u) /\ UNCHANGED pending
    \/ \E q \in LogoutRequests :
          Settled /\ logout(q[1], q[2]) /\ UNCHANGED pending
    \/ \E q \in EditRequests :
          Settled /\ edit_time_entry(q[1], q[2], q[3], q[4], q[5]) /\ UNCHANGED pending
    \/ Settled /\ get_all_time_entries /\ UNCHANGED pending
    \/ \E q \in SuspendRequests :
          Settled /\ suspend_user(q[1], q[2], q[3], q[4]) /\ UNCHANGED pending
    \/ \E q \in DeleteRequests :
          Settled /\ delete_user(q[1], q[2]) /\ UNCHANGED pending

Spec == Init /\ [][Next]_vars

----------------------------------------------------------------------------
(* The service as app.run(debug=True) runs it: the development server      *)
(* handles each request on a thread of its own and app.py takes no lock,   *)
(* so a thread may be preempted between the check and the write of         *)
(* clock_in.                                                               *)

\* clock_in up to the point where it has found no active entry
clock_in_check(th, user_id) ==
    LET req == [user_id |-> user_id] IN
    /\ pending[th] = None
    /\ IF user_id \notin DOMAIN users
       THEN Reject("clock_in", 404, req)
       ELSE IF IsSuspended(user_id)
       THEN Reject("clock_in", 403, req)
       ELSE IF ActiveIndex(user_id) # 0
       THEN Reject("clock_in", 400, req)
       ELSE /\ pending' = [pending EXCEPT ![th] = Some(user_id)]
            /\ UNCHANGED <<data, now, advances, uuids, last, absorbed, sessions,
                           relogged>>

\* the rest of clock_in: new_entry, time_entries.append, save_data
clock_in_write(th) ==
    /\ pending[th] # None
    /\ \E t \in Clock :
         LET user_id == pending[th][1] IN
         /\ uuids < MaxIds
         /\ uuids' = uuids + 1
         /\ time_entries' = Append(time_entries,
                                   NewEntry(EntryId(uuids + 1), user_id, t))
         /\ time_entries_file' = save_data(time_entries_file, time_entries')
         /\ now' = t
         /\ advances' = Observed(t)
         /\ last' = Response("clock_in", 200, [user_id |-> user_id])
         /\ sessions' = SessionsAfterClockIn(user_id, t)
         /\ pending' = [pending EXCEPT ![th] = None]
         /\ UNCHANGED <<users, notes, users_file, notes_file, absorbed, relogged>>

ThreadedNext ==
    \/ \E th \in Threads : \E u \in Clockers : Settled /\ clock_in_check(th, u)
    \/ \E th \in Threads : Settled /\ clock_in_write(th)
    \/ \E u \in Clockers : Settled /\ clock_out(u) /\ UNCHANGED pending

ThreadedSpec == Init /\ [][ThreadedNext]_vars

----------------------------------------------------------------------------
(* The directory on its own: users are added, suspended and deleted.       *)

\* <<name, email, role, pin, requester_role>>
AddRequests ==
    {<<"Ann", "ann@example.com", "ADMIN", "2222", "ADMIN">>,
     <<"Bob", "", "worker", "3333", "TIMEKEEPER">>,
     <<"Eve", "", "ADMIN", "3333", "TIMEKEEPER">>,
     <<"Eve", "", "worker", "3333", "worker">>,
     <<"", "", "worker", "3333", "ADMIN">>,
     <<"Eve", "", "worker", "", "ADMIN">>,
     <<"Eve", "", "worker", "12a4", "ADMIN">>,
     <<"Eve", "", "worker", "0000", "ADMIN">>,
     <<"Eve", "admin@example.com", "worker", "3333", "ADMIN">>}

\* <<user_id, requester_id>>: every user as seen by every user, and the
\* requests that name nobody
DirectoryDeleteRequests ==
    ((DOMAIN users) \X (DOMAIN users)) \cup {<<Nobody, Admin>>, <<Worker, Nobody>>}

DirectoryNext ==
    \/ \E q \in AddRequests :
          Settled /\ add_user(q[1], q[2], q[3], q[4], q[5])
    \/ \E q \in DirectoryDeleteRequests :
          Settled /\ delete_user(q[1], q[2]) /\ UNCHANGED pending
    \/ \E q \in SuspendRequests :
          Settled /\ suspend_user(q[1], q[2], q[3], q[4]) /\ UNCHANGED pending

DirectorySpec == Init /\ [][DirectoryNext]_vars

----------------------------------------------------------------------------
(* The service with a process that may die between two save_data calls of  *)
(* one request and be started again.  Requests are served one at a time;   *)
(* pending[1] holds the request that has made its first save, and each     *)
(* step below runs from one save_data call to the next.                    *)

InFlight == pending[1]

Begun(request) == [pending EXCEPT ![1] = request]

Finished == [pending EXCEPT ![1] = None]

Accepted(requester_id) ==
    requester_id \in DOMAIN users /\ users[requester_id].role \in Managers

\* logout up to save_data(NOTES_FILE, notes)
logout_notes(user_id, requester_id) ==
    LET ai == ActiveIndex(user_id)
        new_note_id == NoteId(uuids + 1)
    IN
    /\ InFlight = None
    /\ IF Accepted(requester_id) /\ user_id \in DOMAIN users /\ ai # 0
       THEN \E t \in Clock :
            /\ uuids < MaxIds
            /\ uuids' = uuids + 1
            /\ time_entries' = [time_entries EXCEPT ![ai] = ForcedOut(@, t)]
            /\ notes' = AppendNote(NewNote(new_note_id, time_entries[ai].id,
                                           "time_entry", t, users[requester_id].name))
            /\ notes_file' = save_data(notes_file, notes')
            /\ now' = t
            /\ advances' = Observed(t)
            /\ pending' = Begun(<<"logout", time_entries[ai].id, new_note_id,
                                  [user_id |-> user_id, requester_id |-> requester_id]>>)
            /\ UNCHANGED <<users, users_file, time_entries_file, last, absorbed,
                           sessions, relogged>>
       ELSE logout(user_id, requester_id) /\ UNCHANGED pending

\* edit_time_entry up to save_data(NOTES_FILE, notes)
edit_time_entry_notes(entry_id, login_time, logout_time, edit_note, editor_user_id) ==
    LET ei == EntryIndex(entry_id)
        new_note_id == NoteId(uuids + 1)
    IN
    /\ InFlight = None
    /\ IF /\ entry_id # None
          /\ edit_note # ""
          /\ ei # 0
          /\ Accepted(editor_user_id)
          /\ login_time \notin {None, Malformed}
          /\ logout_time # Malformed
          /\ ~LogoutBeforeLogin(login_time, logout_time)
       THEN \E t \in Clock :
            /\ uuids < MaxIds
            /\ uuids' = uuids + 1
            /\ time_entries' = [time_entries EXCEPT
                                   ![ei] = Edited(@, login_time, logout_time, t)]
            /\ notes' = AppendNote(NewNote(new_note_id, entry_id, "time_entry", t,
                                           users[editor_user_id].name))
            /\ notes_file' = save_data(notes_file, notes')
            /\ now' = t
            /\ advances' = Observed(t)
            /\ pending' = Begun(<<"edit_time_entry", entry_id, new_note_id,
                                  [entry_id |-> entry_id, login_time |-> login_time,
                                   logout_time |-> logout_time, edit_note |-> edit_note,
                                   editor_user_id |-> editor_user_id],
                                  login_time[1] # time_entries[ei].loginTime>>)
            /\ UNCHANGED <<users, users_file, time_entries_file, last, absorbed,
                           sessions, relogged>>
       ELSE /\ edit_time_entry(entry_id, login_time, logout_time, edit_note,
                               editor_user_id)
            /\ UNCHANGED pending

\* logout and edit_time_entry from the append to editNotes to the response
entry_note_linked ==
    /\ InFlight # None
    /\ InFlight[1] \in {"logout", "edit_time_entry"}
    /\ LET entry_id == InFlight[2]
           ei == EntryIndex(entry_id)
       IN
       /\ time_entries' = [time_entries EXCEPT ![ei] = LinkNote(@, InFlight[3])]
       /\ time_entries_file' = save_data(time_entries_file, time_entries')
       /\ sessions' = SessionsReset(time_entries[ei].userId)
       /\ absorbed' = IF InFlight[1] = "edit_time_entry"
                      THEN absorbed \ {entry_id} ELSE absorbed
       /\ relogged' = IF InFlight[1] = "edit_time_entry" /\ InFlight[5]
                      THEN relogged \cup {entry_id} ELSE relogged
       /\ last' = Response(InFlight[1], 200, InFlight[4])
       /\ pending' = Finished
       /\ UNCHANGED <<users, notes, users_file, notes_file, now, advances, uuids>>

suspend_user_users_first(user_id, is_suspended, note_content, requester_id) ==
    /\ InFlight = None
    /\ Accepted(requester_id)
    /\ user_id \in DOMAIN users
    /\ user_id # requester_id
    /\ ~TimekeeperOnAdmin(requester_id, user_id)
    /\ ~Blank(note_content)
    /\ uuids < MaxIds
    /\ uuids' = uuids + 1
    /\ users' = [users EXCEPT ![user_id].is_suspended = is_suspended,
                              ![user_id].suspension_notes = Append(@, NoteId(uuids + 1))]
    /\ users_file' = save_data(users_file, users')
    /\ pending' = Begun(<<"suspend_user", user_id, NoteId(uuids + 1),
                          [user_id |-> user_id, is_suspended |-> is_suspended,
                           note |-> note_content, requester_id |-> requester_id]>>)
    /\ UNCHANGED <<time_entries, notes, time_entries_file, notes_file, now, advances,
                   last, absorbed, sessions, relogged>>

\* suspend_user up to save_data(NOTES_FILE, notes)
suspend_user_notes(user_id, is_suspended, note_content, requester_id) ==
    LET new_note_id == NoteId(uuids + 1) IN
    /\ InFlight = None
    /\ IF /\ user_id \in DOMAIN users
          /\ Accepted(requester_id)
          /\ user_id # requester_id
          /\ ~TimekeeperOnAdmin(requester_id, user_id)
          /\ ~Blank(note_content)
       THEN \E t \in Clock :
            /\ uuids < MaxIds
            /\ uuids' = uuids + 1
            /\ users' = [users EXCEPT ![user_id].is_suspended = is_suspended]
            /\ notes' = AppendNote(NewNote(new_note_id, user_id, "user_suspension", t,
                                           users[requester_id].name))
            /\ notes_file' = save_data(notes_file, notes')
            /\ now' = t
            /\ advances' = Observed(t)
            /\ pending' = Begun(<<"suspend_user", user_id, new_note_id,
                                  [user_id |-> user_id, is_suspended |-> is_suspended,
                                   note |-> note_content,
                                   requester_id |-> requester_id]>>)
            /\ UNCHANGED <<time_entries, users_file, time_entries_file, last,
                           absorbed, sessions, relogged>>
       ELSE /\ suspend_user(user_id, is_suspended, note_content, requester_id)
            /\ UNCHANGED pending

\* suspend_user from the append to suspension_notes to the response
suspension_note_linked ==
    /\ InFlight # None
    /\ InFlight[1] = "suspend_user"
    /\ users' = [users EXCEPT ![InFlight[2]].suspension_notes = Append(@, InFlight[3])]
    /\ users_file' = save_data(users_file, users')
    /\ last' = Response("suspend_user", 200, InFlight[4])
    /\ pending' = Finished
    /\ UNCHANGED <<time_entries, notes, time_entries_file, notes_file, now, advances,
                   uuids, absorbed, sessions, relogged>>

\* delete_user up to save_data(USERS_FILE, users)
delete_user_users(user_id, requester_id) ==
    /\ InFlight = None
    /\ IF /\ user_id \in DOMAIN users
          /\ requester_id \in DOMAIN users
          /\ RequesterIsAdmin(requester_id)
          /\ user_id # requester_id
          /\ ~(users[user_id].role = "ADMIN" /\ AdminCount <= 1)
       THEN /\ users' = [u \in DOMAIN users \ {user_id} |-> users[u]]
            /\ users_file' = save_data(users_file, users')
            /\ pending' = Begun(<<"delete_user", user_id, NotesToDelete(user_id),
                                  [user_id |-> user_id, requester_id |-> requester_id]>>)
            /\ UNCHANGED <<time_entries, notes, time_entries_file, notes_file, now,
                           advances, uuids, last, absorbed, sessions, relogged>>
       ELSE delete_user(user_id, requester_id) /\ UNCHANGED pending

\* delete_user from the removal of the entries to save_data(TIME_ENTRIES_FILE, ...)
delete_user_entries ==
    /\ InFlight # None
    /\ InFlight[1] = "delete_user"
    /\ time_entries' = SelectSeq(time_entries, LAMBDA e : e.userId # InFlight[2])
    /\ time_entries_file' = save_data(time_entries_file, time_entries')
    /\ pending' = Begun(<<"delete_user_notes", InFlight[2], InFlight[3], InFlight[4]>>)
    /\ UNCHANGED <<users, notes, users_file, notes_file, now, advances, uuids, last,
                   absorbed, sessions, relogged>>

\* delete_user from the removal of the notes to the response
delete_user_notes ==
    /\ InFlight # None
    /\ InFlight[1] = "delete_user_notes"
    /\ notes' = SelectSeq(notes, LAMBDA n : n.id \notin InFlight[3])
    /\ notes_file' = save_data(notes_file, notes')
    /\ sessions' = SessionsReset(InFlight[2])
    /\ absorbed' = {id \in absorbed :
                      \E i \in Indices(time_entries) : time_entries[i].id = id}
    /\ relogged' = {id \in relogged :
                      \E i \in Indices(time_entries) : time_entries[i].id = id}
    /\ last' = Response("delete_user", 200, InFlight[4])
    /\ pending' = Finished
    /\ UNCHANGED <<users, time_entries, users_file, time_entries_file, now, advances,
                   uuids>>

\* DEFAULT_USERS_CONFIG, in its order
DefaultOrder == <<Admin, Timekeeper, Worker>>

\* the default users whose pin no user of the file has, in the order of the
\* configuration
MissingDefaults(file) ==
    SelectSeq(DefaultOrder,
              LAMBDA d : \A u \in DOMAIN file : file[u].pin # DefaultPin(d))

\* initialize_users: the users of the file, those with a default pin set to
\* the default role, name and email, and the missing default users added
\* under new ids
initialize_users(file) ==
    LET missing == MissingDefaults(file)
        added == {UserId(uuids + k) : k \in Indices(missing)}
        corrected(u) ==
            IF \E d \in UserIds : DefaultPin(d) = file[u].pin
            THEN LET d == CHOOSE d \in UserIds : DefaultPin(d) = file[u].pin IN
                 [file[u] EXCEPT !.role = DefaultRole(d), !.name = DefaultName(d),
                                 !.email = DefaultEmail(d)]
            ELSE file[u]
    IN  [u \in DOMAIN file \cup added |->
            IF u \in DOMAIN file
            THEN corrected(u)
            ELSE LET k == CHOOSE k \in Indices(missing) : UserId(uuids + k) = u IN
                 NewUser(u, DefaultName(missing[k]), DefaultEmail(missing[k]),
                         DefaultRole(missing[k]), DefaultPin(missing[k]))]

\* the process dies with a request between two of its saves and is started
\* again: the module level of app.py runs on the files as they are
restart ==
    /\ InFlight # None
    /\ uuids + Len(MissingDefaults(users_file)) <= MaxIds
    /\ uuids' = uuids + Len(MissingDefaults(users_file))
    /\ users' = initialize_users(users_file)
    /\ users_file' = IF users' # users_file
                     THEN save_data(users_file, users') ELSE users_file
    /\ time_entries' = time_entries_file
    /\ notes' = notes_file
    /\ sessions' = [u \in UserIds |-> <<>>]
    /\ absorbed' = {id \in absorbed :
                      \E i \in Indices(time_entries') : time_entries'[i].id = id}
    /\ relogged' = {id \in relogged :
                      \E i \in Indices(time_entries') : time_entries'[i].id = id}
    /\ last' = Response("start", 200, <<>>)
    /\ pending' = Finished
    /\ UNCHANGED <<time_entries_file, notes_file, now, advances>>

CrashNext ==
    \/ \E u \in Clockers :
          Settled /\ InFlight = None /\ clock_in(u) /\ UNCHANGED pending
    \/ \E u \in Clockers :
          Settled /\ InFlight = None /\ clock_out(u) /\ UNCHANGED pending
    \/ \E q \in LogoutRequests : Settled /\ logout_notes(q[1], q[2])
    \/ \E q \in EditRequests :
          Settled /\ edit_time_entry_notes(q[1], q[2], q[3], q[4], q[5])
    \/ entry_note_linked
    \/ \E q \in SuspendRequests :
          Settled /\ suspend_user_notes(q[1], q[2], q[3], q[4])
    \/ suspension_note_linked
    \/ \E q \in DeleteRequests : Settled /\ delete_user_users(q[1], q[2])
    \/ delete_user_entries
    \/ delete_user_notes
    \/ restart

CrashSpec == Init /\ [][CrashNext]_vars

----------------------------------------------------------------------------
(* Vocabulary of the properties *)

IsClosed(e) == e.logoutTime # None

ActiveEntriesOf(u) ==
    {i \in Indices(time_entries) :
        time_entries[i].userId = u /\ time_entries[i].logoutTime = None}

NoteIdsOf(ns) == {ns[i].id : i \in Indices(ns)}

Succeeded(op) == last'.op = op /\ last'.status = 200

\* the request named by last' comes from a user of the directory
Known(u) == u \in DOMAIN users

----------------------------------------------------------------------------
(* C1: at most one entry per user has no logout time.                      *)
(* Refuted: /edit_time_entry without a logout time re-opens a closed entry *)
(* while the user has another active entry.                                *)
C1_AtMostOneActive ==
    \A u \in UserIds : Cardinality(ActiveEntriesOf(u)) <= 1

(* C2: after clock-in, clock-out, clock-in, clock-out of one user on one   *)
(* day that began without an entry of the user, there is exactly one entry *)
(* of the user for that day; it is closed, keeps the first login time, has *)
(* the second clock-out time, and its hours are the sum of the two         *)
(* sessions' hours, each rounded.                                          *)
C2_Consolidation ==
    \A u \in UserIds :
        Len(sessions[u]) = 4 =>
            LET s == sessions[u]
                mine == {i \in Indices(time_entries) :
                            /\ time_entries[i].userId = u
                            /\ time_entries[i].date = DateOf(s[1])}
            IN  /\ Cardinality(mine) = 1
                /\ \A i \in mine :
                      /\ time_entries[i].loginTime = s[1]
                      /\ time_entries[i].logoutTime = Some(s[4])
                      /\ time_entries[i].totalHours =
                            RoundHours(s[2] - s[1]) + RoundHours(s[4] - s[3])

C2_Witness ==
    \E u \in UserIds :
        /\ Len(sessions[u]) = 4
        /\ sessions[u][1] < sessions[u][2]
        /\ sessions[u][3] < sessions[u][4]
        /\ last.op = "clock_out"

(* C3 as stated: every closed entry has totalHours equal to the rounded    *)
(* span from login to logout, entries that took a consolidated clock-out   *)
(* included.  Refuted by the consolidation itself.                         *)
C3_HoursAreSpan ==
    \A i \in Indices(time_entries) :
        IsClosed(time_entries[i]) =>
            time_entries[i].totalHours =
                RoundHours(time_entries[i].logoutTime[1] - time_entries[i].loginTime)

(* C3 amended: every closed entry that has not taken a consolidated        *)
(* clock-out since it was last closed or edited has totalHours equal to    *)
(* the rounded span from login to logout.                                  *)
C3_HoursAreSpanUnlessAbsorbed ==
    \A i \in Indices(time_entries) :
        (IsClosed(time_entries[i]) /\ time_entries[i].id \notin absorbed) =>
            time_entries[i].totalHours =
                RoundHours(time_entries[i].logoutTime[1] - time_entries[i].loginTime)

C3_Witness ==
    /\ last.op = "clock_out"
    /\ last.status = 200
    /\ \E i \in Indices(time_entries) :
          /\ time_entries[i].userId = last.req.user_id
          /\ IsClosed(time_entries[i])
          /\ time_entries[i].id \notin absorbed
          /\ time_entries[i].logoutTime = Some(now)
          /\ time_entries[i].totalHours > 0

(* C4: a clock-in of a suspended user is answered 403 and creates no       *)
(* entry; a suspension changes no entry; and the clock-out of a suspended  *)
(* user with an active entry succeeds and leaves that entry closed or      *)
(* consolidated.                                                           *)
C4_Step ==
    /\ (/\ last'.op = "clock_in"
        /\ Known(last'.req.user_id)
        /\ users[last'.req.user_id].is_suspended)
       => (last'.status = 403 /\ time_entries' = time_entries)
    /\ Succeeded("suspend_user") => time_entries' = time_entries
    /\ (/\ last'.op = "clock_out"
        /\ Known(last'.req.user_id)
        /\ users[last'.req.user_id].is_suspended
        /\ ActiveEntriesOf(last'.req.user_id) # {})
       => /\ last'.status = 200
          /\ LET id == time_entries[ActiveIndex(last'.req.user_id)].id IN
             \A i \in Indices(time_entries') :
                time_entries'[i].id = id => IsClosed(time_entries'[i])

C4_SuspensionGatesClockInOnly == [][C4_Step]_vars

C4_Witness ==
    /\ last.op = "clock_out"
    /\ last.status = 200
    /\ Known(last.req.user_id)
    /\ users[last.req.user_id].is_suspended
    /\ ActiveEntriesOf(last.req.user_id) = {}

(* C5: a successful /logout, /edit_time_entry or /suspend_user adds        *)
(* exactly one note, whose entityId is the affected entry (or user), and   *)
(* appends its id at the end of that entry's editNotes (or that user's     *)
(* suspension_notes); no other note list changes.                          *)
C5_Step ==
    (\E op \in {"logout", "edit_time_entry", "suspend_user"} : Succeeded(op)) =>
        LET op == last'.op
            n == notes'[Len(notes')]
            target == IF op = "logout"
                      THEN time_entries[ActiveIndex(last'.req.user_id)].id
                      ELSE IF op = "edit_time_entry"
                      THEN last'.req.entry_id
                      ELSE last'.req.user_id
        IN  /\ Len(notes') = Len(notes) + 1
            /\ SubSeq(notes', 1, Len(notes)) = notes
            /\ n.id \notin NoteIdsOf(notes)
            /\ n.entityId = target
            /\ Len(time_entries') = Len(time_entries)
            /\ \A i \in Indices(time_entries) :
                  /\ time_entries'[i].id = time_entries[i].id
                  /\ time_entries'[i].editNotes =
                        IF op # "suspend_user" /\ time_entries[i].id = target
                        THEN Append(time_entries[i].editNotes, n.id)
                        ELSE time_entries[i].editNotes
            /\ DOMAIN users' = DOMAIN users
            /\ \A u \in DOMAIN users :
                  users'[u].suspension_notes =
                        IF op = "suspend_user" /\ u = target
                        THEN Append(users[u].suspension_notes, n.id)
                        ELSE users[u].suspension_notes

C5_OneNotePerAdministrativeChange == [][C5_Step]_vars

C5_Witness ==
    /\ last.op = "edit_time_entry"
    /\ last.status = 200
    /\ \E i \in Indices(time_entries) :
          /\ time_entries[i].id = last.req.entry_id
          /\ Len(time_entries[i].editNotes) = 2

(* C6: after a listing read at time `current_time`, every stored entry     *)
(* that was edited and last modified more than three days before has       *)
(* edited = false, in memory and in time_entries.json.                     *)
(* Refuted: the read resets the flag on the returned copies only.          *)
C6_Step ==
    last'.op = "time_entries" =>
        \A i \in Indices(time_entries) :
            (/\ time_entries[i].edited
             /\ last'.req.current_time - time_entries[i].lastModified
                    > EDITED_DAYS * TicksPerDay)
            => (~time_entries'[i].edited /\ ~time_entries_file'[i].edited)

C6_ListingResetsStoredFlag == [][C6_Step]_vars

(* C7: an edit whose new logout time precedes its new login time changes   *)
(* no entry and adds no note; it is answered 400 when the entry exists,    *)
(* the note is given and the editor is an admin or timekeeper.             *)
C7_Step ==
    (/\ last'.op = "edit_time_entry"
     /\ Len(last'.req.login_time) = 1
     /\ Len(last'.req.logout_time) = 1
     /\ last'.req.logout_time[1] < last'.req.login_time[1])
    => /\ time_entries' = time_entries
       /\ notes' = notes
       /\ last'.status # 200
       /\ (/\ \E i \in Indices(time_entries) :
                 time_entries[i].id = last'.req.entry_id
           /\ last'.req.edit_note # ""
           /\ Known(last'.req.editor_user_id)
           /\ users[last'.req.editor_user_id].role \in {"ADMIN", "TIMEKEEPER"})
          => last'.status = 400

C7_LogoutBeforeLoginRefused == [][C7_Step]_vars

C7_Witness ==
    /\ last.op = "edit_time_entry"
    /\ last.status = 400
    /\ Len(last.req.login_time) = 1
    /\ Len(last.req.logout_time) = 1
    /\ last.req.logout_time[1] < last.req.login_time[1]
    /\ last.req.edit_note # ""

(* C8: /suspend_user asked by a timekeeper against an admin is answered    *)
(* 403 and leaves the users and the notes as they were.                    *)
C8_Step ==
    (/\ last'.op = "suspend_user"
     /\ Known(last'.req.requester_id)
     /\ Known(last'.req.user_id)
     /\ users[last'.req.requester_id].role = "TIMEKEEPER"
     /\ users[last'.req.user_id].role = "ADMIN")
    => (last'.status = 403 /\ users' = users /\ notes' = notes)

C8_TimekeeperCannotSuspendAdmin == [][C8_Step]_vars

C8_Witness ==
    /\ last.op = "suspend_user"
    /\ last.status = 403
    /\ last.req.requester_id = Timekeeper
    /\ last.req.user_id = Admin

(* C9: a successful delete removes the user, the entries with that userId  *)
(* and the notes named by those entries' editNotes or by the user's        *)
(* suspension_notes, and leaves every other user, entry and note as it     *)
(* was.                                                                    *)
C9_Step ==
    Succeeded("delete_user") =>
        LET u == last'.req.user_id
            named == {id \in NoteIdsOf(notes) :
                        \/ \E k \in Indices(users[u].suspension_notes) :
                              users[u].suspension_notes[k] = id
                        \/ \E i \in Indices(time_entries) :
                              /\ time_entries[i].userId = u
                              /\ \E k \in Indices(time_entries[i].editNotes) :
                                    time_entries[i].editNotes[k] = id}
        IN  /\ DOMAIN users' = DOMAIN users \ {u}
            /\ \A v \in DOMAIN users' : users'[v] = users[v]
            /\ time_entries' = SelectSeq(time_entries, LAMBDA e : e.userId # u)
            /\ notes' = SelectSeq(notes, LAMBDA n : n.id \notin named)

C9_DeleteCascadesExactly == [][C9_Step]_vars

C9_Witness ==
    /\ last.op = "delete_user"
    /\ last.status = 200
    /\ last.req.user_id = Worker
    /\ uuids = MaxIds
    /\ time_entries = <<StoredEntry>>
    /\ Len(notes) = 1

(* C10: when the active entry's login lies on an earlier day than the      *)
(* clock-out, the clock-out closes that entry in place: no entry is        *)
(* removed and no other entry changes.                                     *)
(* Refuted: the guard looks at the login day of the completed entry, not   *)
(* of the active one.                                                      *)
C10_Step ==
    (/\ Succeeded("clock_out")
     /\ DateOf(time_entries[ActiveIndex(last'.req.user_id)].loginTime) < DateOf(now'))
    => LET ai == ActiveIndex(last'.req.user_id) IN
       /\ Len(time_entries') = Len(time_entries)
       /\ \A i \in Indices(time_entries) :
             IF i = ai
             THEN /\ time_entries'[i].id = time_entries[i].id
                  /\ time_entries'[i].logoutTime = Some(now')
             ELSE time_entries'[i] = time_entries[i]

C10_OvernightClosesInPlace == [][C10_Step]_vars

(* C11: /clock_in answers 404 for an unknown user, 403 for a suspended    *)
(* one and 409 for one who has an active entry, changing no entry; in any  *)
(* other case it succeeds and appends one open entry with totalHours 0 and *)
(* no notes.                                                               *)
(* Refuted: the answer to a user who is already clocked in is 400.         *)
C11_Step ==
    last'.op = "clock_in" =>
        LET u == last'.req.user_id
            missing == ~Known(u)
            suspended == Known(u) /\ users[u].is_suspended
            active == Known(u) /\ ~suspended /\ ActiveEntriesOf(u) # {}
        IN  /\ missing => last'.status = 404
            /\ suspended => last'.status = 403
            /\ active => last'.status = 409
            /\ (missing \/ suspended \/ active) => time_entries' = time_entries
            /\ ~(missing \/ suspended \/ active) =>
                  /\ last'.status = 200
                  /\ Len(time_entries') = Len(time_entries) + 1
                  /\ SubSeq(time_entries', 1, Len(time_entries)) = time_entries
                  /\ LET e == time_entries'[Len(time_entries')] IN
                     /\ e.userId = u
                     /\ e.logoutTime = None
                     /\ e.totalHours = 0
                     /\ e.editNotes = <<>>

C11_ClockInOutcomes == [][C11_Step]_vars

(* C12: /clock_out for a user without an active entry, and /logout by an   *)
(* admin or timekeeper for such a user, are answered 400 and leave the     *)
(* entries, the notes and the users as they were.                          *)
C12_Step ==
    /\ (/\ last'.op = "clock_out"
        /\ Known(last'.req.user_id)
        /\ ActiveEntriesOf(last'.req.user_id) = {})
       => /\ last'.status = 400
          /\ UNCHANGED <<users, time_entries, notes>>
    /\ (/\ last'.op = "logout"
        /\ Known(last'.req.requester_id)
        /\ users[last'.req.requester_id].role \in {"ADMIN", "TIMEKEEPER"}
        /\ Known(last'.req.user_id)
        /\ ActiveEntriesOf(last'.req.user_id) = {})
       => /\ last'.status = 400
          /\ UNCHANGED <<users, time_entries, notes>>

C12_NoActiveEntryIsInvalidState == [][C12_Step]_vars

C12_Witness ==
    /\ last.op = "logout"
    /\ last.status = 400
    /\ Known(last.req.user_id)
    /\ ActiveEntriesOf(last.req.user_id) = {}
    /\ \E i \in Indices(time_entries) : time_entries[i].userId = last.req.user_id

(* C13: the notes are append-only: every request but a delete leaves the   *)
(* notes it found where and as they were, a delete leaves the notes it     *)
(* keeps as they were, and /clock_in and /clock_out (a consolidating one   *)
(* included) leave the notes exactly as they were.                         *)
C13_Step ==
    /\ last'.op # "delete_user" =>
          /\ Len(notes') >= Len(notes)
          /\ SubSeq(notes', 1, Len(notes)) = notes
    /\ last'.op = "delete_user" =>
          \A i \in Indices(notes') : \E j \in Indices(notes) : notes[j] = notes'[i]
    /\ last'.op \in {"clock_in", "clock_out"} => notes' = notes

C13_NotesAppendOnly == [][C13_Step]_vars

\* a consolidating clock-out has removed an entry that had a note
C13_Witness ==
    /\ last.op = "clock_out"
    /\ last.status = 200
    /\ \E k \in Indices(notes) :
          /\ notes[k].entityType = "time_entry"
          /\ \A i \in Indices(time_entries) : time_entries[i].id # notes[k].entityId

(* C14: with requests on concurrent threads, two /clock_in requests of one *)
(* user leave the user with at most one active entry.                      *)
(* Refuted: nothing serializes the check and the write of clock_in.        *)
C14_ConcurrentClockInsLeaveOneActive ==
    \A u \in UserIds :
        Cardinality({e \in SeqToSet(time_entries) :
                        e.userId = u /\ e.logoutTime = None}) <= 1

(* C15: whenever a request has been answered, users.json,                 *)
(* time_entries.json and notes.json hold what users, time_entries and      *)
(* notes hold.                                                             *)
C15_DurableEqualsMemory ==
    /\ users_file = users
    /\ time_entries_file = time_entries
    /\ notes_file = notes

C15_Witness ==
    /\ last.op = "suspend_user"
    /\ last.status = 200
    /\ users_file # DefaultUsers
    /\ notes_file # <<StoredNote>>
    /\ time_entries_file # <<StoredEntry>>

(* C16: /suspend_user of a user by that same user is answered 403; with a  *)
(* note that is missing or blank it changes nothing, and is answered 400   *)
(* when the request is otherwise acceptable; in both cases the users and   *)
(* the notes are as they were.                                             *)
C16_Step ==
    last'.op = "suspend_user" =>
        LET q == last'.req IN
        /\ (Known(q.user_id) /\ q.requester_id = q.user_id)
           => (last'.status = 403 /\ users' = users /\ notes' = notes)
        /\ q.note \in {"", " "}
           => /\ last'.status # 200
              /\ users' = users
              /\ notes' = notes
              /\ (/\ Known(q.user_id)
                  /\ Known(q.requester_id)
                  /\ q.requester_id # q.user_id
                  /\ users[q.requester_id].role \in {"ADMIN", "TIMEKEEPER"}
                  /\ ~(/\ users[q.requester_id].role = "TIMEKEEPER"
                       /\ users[q.user_id].role = "ADMIN"))
                 => last'.status = 400

C16_SelfAndBlankNoteRefused == [][C16_Step]_vars

C16_Witness ==
    /\ last.op = "suspend_user"
    /\ last.status = 400
    /\ last.req.note = " "
    /\ last.req.requester_id # last.req.user_id

(* C17: /logout, /edit_time_entry and /suspend_user asked by someone who   *)
(* is not a user, or who is neither admin nor timekeeper, are answered 403 *)
(* and change no entry, note or user (the target, the entry and the note   *)
(* text being acceptable).                                                 *)
(* Refuted: for a requester who is not a user the handlers fail with 500.  *)
C17_Step ==
    LET q == last'.req
        unauthorized(r) == ~Known(r) \/ users[r].role \notin {"ADMIN", "TIMEKEEPER"}
        refused == last'.status = 403 /\ UNCHANGED <<users, time_entries, notes>>
    IN
    /\ (last'.op = "logout" /\ unauthorized(q.requester_id)) => refused
    /\ (/\ last'.op = "edit_time_entry"
        /\ q.edit_note # ""
        /\ \E i \in Indices(time_entries) : time_entries[i].id = q.entry_id
        /\ unauthorized(q.editor_user_id)) => refused
    /\ (/\ last'.op = "suspend_user"
        /\ Known(q.user_id)
        /\ unauthorized(q.requester_id)) => refused

C17_UnauthorizedIsForbidden == [][C17_Step]_vars

(* C18: a new entry's date is the calendar day of its clock-in, and no     *)
(* request changes the date of an entry it keeps.                          *)
C18_Step ==
    /\ \A i \in Indices(time_entries) : \A j \in Indices(time_entries') :
          time_entries'[j].id = time_entries[i].id
             => time_entries'[j].date = time_entries[i].date
    /\ Succeeded("clock_in") =>
          LET e == time_entries'[Len(time_entries')] IN
          e.loginTime = now' /\ e.date = DateOf(now')

C18_DateFixedAtClockIn == [][C18_Step]_vars

\* an edit has moved an entry's login to another day
C18_Witness ==
    /\ last.op = "edit_time_entry"
    /\ last.status = 200
    /\ \E i \in Indices(time_entries) :
          /\ time_entries[i].id = last.req.entry_id
          /\ time_entries[i].loginTime = last.req.login_time[1]
          /\ DateOf(time_entries[i].loginTime) # time_entries[i].date

(* C19 as stated: every entry's date is the calendar day of its current    *)
(* loginTime, also after an edit has moved loginTime to another day.       *)
(* Refuted: an edit changes loginTime and leaves date alone.               *)
C19_DateIsLoginDay ==
    \A i \in Indices(time_entries) :
        time_entries[i].date = DateOf(time_entries[i].loginTime)

(* C19 amended: every entry whose loginTime no edit has changed has the    *)
(* calendar day of its loginTime as its date.                              *)
C19_DateIsLoginDayUnlessRelogged ==
    \A i \in Indices(time_entries) :
        time_entries[i].id \notin relogged
           => time_entries[i].date = DateOf(time_entries[i].loginTime)

\* an entry that was clocked in, closed and edited without a change of login
C19_Witness ==
    /\ last.op = "edit_time_entry"
    /\ last.status = 200
    /\ last.req.entry_id \notin relogged
    /\ \E i \in Indices(time_entries) :
          /\ time_entries[i].id = last.req.entry_id
          /\ time_entries[i].edited
          /\ time_entries[i].logoutTime # None

(* C20: a listing read taken no more than three days after an entry's      *)
(* lastModified leaves its edited flag as it was, in memory, in            *)
(* time_entries.json and in the returned entry; a returned entry shows     *)
(* edited = false only if the stored flag was false or the entry is more   *)
(* than three days past lastModified.                                      *)
C20_Step ==
    last'.op = "time_entries" =>
        \A i \in Indices(time_entries) :
            LET e == time_entries[i]
                age == last'.req.current_time - e.lastModified
                returned == last'.body[i].entry
            IN  /\ age <= 3 * TicksPerDay =>
                      /\ time_entries'[i].edited = e.edited
                      /\ time_entries_file'[i].edited = e.edited
                      /\ returned.edited = e.edited
                /\ ~returned.edited => (~e.edited \/ age > 3 * TicksPerDay)

C20_NoResetWithinThreeDays == [][C20_Step]_vars

\* a read exactly three days after lastModified returns the flag still set
C20_Witness ==
    /\ last.op = "time_entries"
    /\ \E i \in Indices(time_entries) :
          /\ time_entries[i].edited
          /\ last.req.current_time - time_entries[i].lastModified = 3 * TicksPerDay
          /\ last.body[i].entry.edited

(* C21: a successful /logout closes the user's active entry where it is:  *)
(* logoutTime and lastModified become the time of the request, totalHours  *)
(* the rounded span since loginTime, edited true; id, userId, loginTime    *)
(* and date stay; every other entry stays as it was and none is removed,   *)
(* also when the user has a completed entry of the same date.              *)
C21_Step ==
    Succeeded("logout") =>
        LET ai == ActiveIndex(last'.req.user_id)
            e == time_entries[ai]
            f == time_entries'[ai]
        IN  /\ Len(time_entries') = Len(time_entries)
            /\ \A i \in Indices(time_entries) :
                  i # ai => time_entries'[i] = time_entries[i]
            /\ f.id = e.id
            /\ f.userId = e.userId
            /\ f.loginTime = e.loginTime
            /\ f.date = e.date
            /\ f.logoutTime = Some(now')
            /\ f.lastModified = now'
            /\ f.edited
            /\ f.totalHours = RoundHours(now' - e.loginTime)

C21_ForceLogoutClosesInPlace == [][C21_Step]_vars

\* a forced logout beside a completed entry of the same user and date
C21_Witness ==
    /\ last.op = "logout"
    /\ last.status = 200
    /\ \E i \in Indices(time_entries) : \E j \in Indices(time_entries) :
          /\ i # j
          /\ time_entries[i].userId = last.req.user_id
          /\ time_entries[j].userId = last.req.user_id
          /\ time_entries[i].date = time_entries[j].date
          /\ time_entries[i].logoutTime # None
          /\ time_entries[j].logoutTime = Some(now)
          /\ time_entries[j].lastModified = now
          /\ time_entries[j].edited

(* C22: /logout, /edit_time_entry and /suspend_user asked by an admin or   *)
(* timekeeper who is suspended are refused and change no entry, note or    *)
(* user.                                                                   *)
(* Refuted: the handlers never look at the requester's is_suspended.       *)
C22_Step ==
    LET q == last'.req
        suspendedManager(r) == /\ Known(r)
                               /\ users[r].role \in {"ADMIN", "TIMEKEEPER"}
                               /\ users[r].is_suspended
        refused == last'.status # 200 /\ UNCHANGED <<users, time_entries, notes>>
    IN
    /\ (last'.op = "logout" /\ suspendedManager(q.requester_id)) => refused
    /\ (last'.op = "edit_time_entry" /\ suspendedManager(q.editor_user_id)) => refused
    /\ (last'.op = "suspend_user" /\ suspendedManager(q.requester_id)) => refused

C22_SuspendedManagersRefused == [][C22_Step]_vars

(* C23 as stated: no user has two completed entries with the same date.    *)
(* Refuted: a forced logout and an edit close an entry where it is.        *)
C23_OneClosedEntryPerDate ==
    \A i \in Indices(time_entries) : \A j \in Indices(time_entries) :
        (/\ i # j
         /\ time_entries[i].userId = time_entries[j].userId
         /\ time_entries[i].date = time_entries[j].date)
        => (time_entries[i].logoutTime = None \/ time_entries[j].logoutTime = None)

(* C23 amended: no user has two completed entries with the same date that  *)
(* both have edited = false and a logoutTime on that date: clock-outs of   *)
(* the day consolidate, forced logouts and edits do not.                   *)
C23_OneUneditedClosedEntryPerDate ==
    \A i \in Indices(time_entries) : \A j \in Indices(time_entries) :
        (/\ i # j
         /\ time_entries[i].userId = time_entries[j].userId
         /\ time_entries[i].date = time_entries[j].date
         /\ time_entries[i].logoutTime # None
         /\ time_entries[j].logoutTime # None
         /\ DateOf(time_entries[i].logoutTime[1]) = time_entries[i].date
         /\ DateOf(time_entries[j].logoutTime[1]) = time_entries[j].date)
        => (time_entries[i].edited \/ time_entries[j].edited)

\* a second clock-out of the day has consolidated into the first entry
C23_Witness ==
    /\ last.op = "clock_out"
    /\ last.status = 200
    /\ \E i \in Indices(time_entries) :
          /\ time_entries[i].userId = last.req.user_id
          /\ time_entries[i].id \in absorbed
          /\ ~time_entries[i].edited
          /\ time_entries[i].logoutTime = Some(now)
          /\ DateOf(now) = time_entries[i].date
          /\ \A j \in Indices(time_entries) :
                (j # i /\ time_entries[j].userId = last.req.user_id)
                   => time_entries[j].date # time_entries[i].date

(* C24: every completed entry has logoutTime >= loginTime and              *)
(* totalHours >= 0.                                                        *)
(* Refuted: an edit may set the login of an active entry after the present *)
(* time, and the clock-out or forced logout that follows closes it before  *)
(* its login.                                                              *)
C24_ClosedEntriesRunForward ==
    \A i \in Indices(time_entries) :
        time_entries[i].logoutTime # None =>
            /\ time_entries[i].logoutTime[1] >= time_entries[i].loginTime
            /\ time_entries[i].totalHours >= 0

(* C25: every note is owned: a time_entry note is listed in the editNotes  *)
(* of the existing entry it names, a user_suspension note in the           *)
(* suspension_notes of the existing user it names.                         *)
(* Refuted: a consolidating clock-out removes the active entry and keeps   *)
(* its notes.                                                              *)
C25_EveryNoteOwned ==
    \A k \in Indices(notes) :
        IF notes[k].entityType = "time_entry"
        THEN \E i \in Indices(time_entries) :
                /\ time_entries[i].id = notes[k].entityId
                /\ \E m \in Indices(time_entries[i].editNotes) :
                      time_entries[i].editNotes[m] = notes[k].id
        ELSE /\ notes[k].entityId \in DOMAIN users
             /\ \E m \in Indices(users[notes[k].entityId].suspension_notes) :
                   users[notes[k].entityId].suspension_notes[m] = notes[k].id

(* C26: whatever users are added, suspended and deleted, a user with role *)
(* ADMIN remains; and a delete succeeds only when asked by a user with     *)
(* role ADMIN who is not the one deleted.                                  *)
C26_Step ==
    /\ (\E u \in DOMAIN users : users[u].role = "ADMIN")
       => (\E u \in DOMAIN users' : users'[u].role = "ADMIN")
    /\ Succeeded("delete_user") =>
          /\ Known(last'.req.requester_id)
          /\ users[last'.req.requester_id].role = "ADMIN"
          /\ last'.req.requester_id # last'.req.user_id

C26_AnAdminRemains == [][C26_Step]_vars

\* the admin of the defaults has been deleted by an admin added later
C26_Witness ==
    /\ last.op = "delete_user"
    /\ last.status = 200
    /\ last.req.user_id = Admin
    /\ Admin \notin DOMAIN users
    /\ last.req.requester_id \in DOMAIN users
    /\ users[last.req.requester_id].role = "ADMIN"

(* C27: whenever the process may die, the files name no absent note:      *)
(* every id in the editNotes of an entry of time_entries.json and in the   *)
(* suspension_notes of a user of users.json is the id of a note of         *)
(* notes.json.                                                             *)
C27_NoDanglingNoteReference ==
    LET stored == {notes_file[k].id : k \in Indices(notes_file)} IN
    /\ \A i \in Indices(time_entries_file) :
          \A m \in Indices(time_entries_file[i].editNotes) :
             time_entries_file[i].editNotes[m] \in stored
    /\ \A u \in DOMAIN users_file :
          \A m \in Indices(users_file[u].suspension_notes) :
             users_file[u].suspension_notes[m] \in stored

\* the process was started again after it died between the two saves of a
\* forced logout or an edit: notes.json holds a note that its entry does not
\* list
C27_Witness ==
    /\ last.op = "start"
    /\ InFlight = None
    /\ \E k \in Indices(notes_file) : \E i \in Indices(time_entries_file) :
          /\ notes_file[k].entityId = time_entries_file[i].id
          /\ \A m \in Indices(time_entries_file[i].editNotes) :
                time_entries_file[i].editNotes[m] # notes_file[k].id

====
